---------------------------- MODULE Spec2Model ----------------------------
(***************************************************************************)
(* Model of the ingestion pipeline of src/python/process_data.py:          *)
(* DataCleaner (clean_zillow_data, clean_redfin_data, validate_data),      *)
(* DataLoader (load_listings, load_macro_indicators) and main().           *)
(*                                                                         *)
(* Values.  A pandas cell that may be missing (NaN / None / NaT) is an     *)
(* option: the empty set when missing, a singleton {v} otherwise.  A       *)
(* DataFrame is [cols |-> sequence of column names, rows |-> sequence of   *)
(* records whose domain is the set of column names].  Timestamps are held  *)
(* as the text str(Timestamp) gives, RegionID as the text str() gives.     *)
(***************************************************************************)
EXTENDS Integers, Sequences, FiniteSets, TLC

VARIABLES
    raw,             \* the raw directory: per source kind, its snapshot files
    pc,              \* position of main() / of the call under study
    df,              \* the DataFrame in flight between the stages
    idx,             \* position of the loop of the loader in df
    records_loaded,  \* loader: local counter
    records_failed,  \* loader: local counter
    total_loaded,    \* main: running total
    listings,        \* the listings table of the store
    macro_indicators,\* the macro_indicators table of the store
    store_up,        \* whether the store accepts connections
    now,             \* the store's clock (CURRENT_TIMESTAMP)
    run,             \* number of completed runs of main()
    log,             \* loader: the warnings of the call on the records that failed
    closed,          \* number of calls of loader.close() on the run's DataLoader
    hist             \* history (not program state): what the claims refer back to

vars == <<raw, pc, df, idx, records_loaded, records_failed, total_loaded,
          listings, macro_indicators, store_up, now, run, log, closed, hist>>

\* what the stages of the listings pipeline never write
macroFrame == <<macro_indicators, store_up>>
\* what only the loaders (log) and the two ends of main (closed) write
outFrame == <<log, closed>>

----------------------------------------------------------------------------
(* Options and frames *)

Null == {}
Some(v) == {v}
IsNull(x) == x = {}
NotNa(x) == x # {}
Get(x) == CHOOSE v \in x : TRUE

Range(s) == {s[i] : i \in DOMAIN s}
Has(frame, c) == c \in Range(frame.cols)
EmptyDataFrame == [cols |-> <<>>, rows |-> <<>>]
IsEmpty(frame) == Len(frame.cols) = 0 \/ Len(frame.rows) = 0

\* str(x) of a cell inside an f-string: a missing value prints as "nan"
StrOf(x) == IF IsNull(x) THEN "nan" ELSE Get(x)
\* str(Timestamp) inside an f-string: NaT prints as "NaT"
StrOfTimestamp(x) == IF IsNull(x) THEN "NaT" ELSE Get(x)

\* rows of s kept where Keep holds, order preserved
RECURSIVE FilterRows(_, _)
FilterRows(s, keepIdx) ==
    IF s = <<>> THEN <<>>
    ELSE LET n == Len(s)
             front == FilterRows(SubSeq(s, 1, n - 1), keepIdx)
         IN IF n \in keepIdx THEN Append(front, s[n]) ELSE front

----------------------------------------------------------------------------
(* Conversions *)

\* pd.to_datetime of one text value, as str(Timestamp)
DateTable ==
    [t \in {"2020-01-31", "2020-02-29", "2020-03-31"} |-> t \o " 00:00:00"]
Parseable(text) == text \in DOMAIN DateTable
to_datetime(x) == IF IsNull(x) THEN Null ELSE Some(DateTable[Get(x)])

\* a raw CSV cell of a numeric column
NumCell(n) == [kind |-> "num", n |-> n]
TextCell == [kind |-> "text", n |-> 0]
EmptyCell == [kind |-> "empty", n |-> 0]
\* pd.to_numeric(errors='coerce')
to_numeric(cell) == IF cell.kind = "num" THEN Some(cell.n) ELSE Null

\* hashlib.md5(s.encode()).hexdigest()[:16], tabulated on the texts the model forms
md5_16(s) ==
    CASE s = "zillow_102001_2020-01-31 00:00:00" -> "7d4a175ba5c95745"
      [] s = "zillow_102001_2020-02-29 00:00:00" -> "19de990ee081c8fa"
      [] s = "zillow_102001_2020-03-31 00:00:00" -> "59ffd31c9dde0a29"
      [] s = "zillow_394913_2020-01-31 00:00:00" -> "768752e0b70b4852"
      [] s = "zillow_394913_2020-02-29 00:00:00" -> "89c8d3cefa9d19dc"
      [] s = "zillow_394913_2020-03-31 00:00:00" -> "e1cafc95f9260eb6"
      [] s = "redfin_Florida_2020-01-31 00:00:00" -> "abf718f598435d66"
      [] s = "redfin_Florida_2020-02-29 00:00:00" -> "3d4ff461842b397e"
      [] s = "redfin_Florida_2020-03-31 00:00:00" -> "09cfd6649576b8d1"
      [] s = "redfin_Florida_NaT" -> "da55cea1e47890c1"
      [] s = "redfin_Texas_2020-01-31 00:00:00" -> "688c4a10381d37bd"
      [] s = "redfin_Texas_2020-02-29 00:00:00" -> "d47fd82940a7b5d8"
      [] s = "redfin_Texas_2020-03-31 00:00:00" -> "3f07247bcc9e1d33"
      [] s = "redfin_Texas_NaT" -> "0ce7887b941a7640"
      [] s = "redfin_nan_2020-01-31 00:00:00" -> "3537c64a93b6ac25"
      [] s = "redfin_nan_2020-02-29 00:00:00" -> "8e811ad3236cf675"
      [] s = "redfin_nan_2020-03-31 00:00:00" -> "a37618fcbcc3cfe0"
      [] s = "redfin_nan_NaT" -> "7f3bdf2348b4d9d7"
      [] s = "redfin__2020-01-31 00:00:00" -> "cadca116133f73bf"
      [] s = "redfin__2020-02-29 00:00:00" -> "938b533adf717a27"
      [] s = "redfin__2020-03-31 00:00:00" -> "4e5f8772b7aa2f35"
      [] s = "redfin__NaT" -> "bc510c2443ad6d5a"
      [] s = "zillow_Miami_2020-01-31 00:00:00" -> "74e8754b3031209a"
      [] s = "zillow_Miami_2020-02-29 00:00:00" -> "47cb5cd933371b03"
      [] s = "zillow_Miami_2020-03-31 00:00:00" -> "7faa997996edc548"
      [] s = "zillow_Tampa_2020-01-31 00:00:00" -> "a12bcfb46b1f3de9"
      [] s = "zillow_Tampa_2020-02-29 00:00:00" -> "4f9bce15fdbecd71"
      [] s = "zillow_Tampa_2020-03-31 00:00:00" -> "07373f46bf92d5da"
      [] s = "zillow__2020-01-31 00:00:00" -> "85727ce56c248a3c"
      [] s = "zillow__2020-02-29 00:00:00" -> "14620d21c88b5fa4"
      [] s = "zillow__2020-03-31 00:00:00" -> "5ae8f5b326cd7f43"
      [] s = "zillow_102001_" -> "2195833d00bef533"
      [] s = "zillow_394913_" -> "7a6390d28414aa62"

\* Series.str.lower()
lower(s) ==
    CASE s = "Single Family Residential" -> "single family residential"
      [] s = "Condo/Co-op" -> "condo/co-op"
      [] s = "Townhouse" -> "townhouse"
      [] s = "All Residential" -> "all residential"
      [] OTHER -> s

----------------------------------------------------------------------------
(* DataCleaner.__init__: validation_rules *)

min_price == 0
max_price == 100000000
min_sqft == 100
max_sqft == 50000
min_bed == 0
max_bed == 20
min_bath == 0
max_bath == 15

\* the column list of the canonical frame (lines 88-90 and 153-155)
columns == <<"listing_id", "date", "region", "city", "property_type", "price",
             "tax", "sale_type", "ownership", "bedrooms", "bathrooms", "sqft">>


MapRows(rows, F(_)) == IF rows = <<>> THEN <<>> ELSE [i \in DOMAIN rows |-> F(rows[i])]

----------------------------------------------------------------------------
(* DataCleaner.clean_zillow_data *)

ZillowIdVars == <<"RegionID", "SizeRank", "RegionName", "RegionType", "StateName">>

\* mutant: the price of every row read from the first value column
melt_first_value(frame, id_vars, value_vars) ==
    LET n == Len(frame.rows)
        cell(k) ==
            LET j == ((k - 1) \div n) + 1
                i == ((k - 1) % n) + 1
            IN [c \in Range(id_vars) \cup {"date", "price"} |->
                  IF c = "date" THEN Some(value_vars[j])
                  ELSE IF c = "price" THEN frame.rows[i][value_vars[1]]
                  ELSE frame.rows[i][c]]
    IN [cols |-> id_vars \o <<"date", "price">>,
        rows |-> IF n * Len(value_vars) = 0 THEN <<>>
                 ELSE [k \in 1..(n * Len(value_vars)) |-> cell(k)]]

\* df.melt(id_vars, value_vars, var_name='date', value_name='price'): one row per
\* (value column, input row), value columns outermost
melt(frame, id_vars, value_vars) ==
    LET n == Len(frame.rows)
        cell(k) ==
            LET j == ((k - 1) \div n) + 1
                i == ((k - 1) % n) + 1
            IN [c \in Range(id_vars) \cup {"date", "price"} |->
                  IF c = "date" THEN Some(value_vars[j])
                  ELSE IF c = "price" THEN frame.rows[i][value_vars[j]]
                  ELSE frame.rows[i][c]]
    IN [cols |-> id_vars \o <<"date", "price">>,
        rows |-> IF n * Len(value_vars) = 0 THEN <<>>
                 ELSE [k \in 1..(n * Len(value_vars)) |-> cell(k)]]

\* mutant: the region's name hashed in place of its RegionID
ZillowKeyTextByName(x) ==
    "zillow_" \o (IF "RegionName" \in DOMAIN x THEN StrOf(x.RegionName) ELSE "")
              \o "_" \o StrOfTimestamp(x.date)

\* mutant: the period left out of the hashed text
ZillowKeyTextNoPeriod(x) == "zillow_" \o x.RegionID \o "_"

\* the text hashed for a Zillow row (line 68)
ZillowKeyText(x) == "zillow_" \o x.RegionID \o "_" \o StrOfTimestamp(x.date)

zillow_id_vars(frame) == SelectSeq(ZillowIdVars, LAMBDA c : Has(frame, c))
zillow_date_cols(frame) ==
    SelectSeq(frame.cols, LAMBDA c : c \notin Range(zillow_id_vars(frame)))
zillow_long(frame) == melt(frame, zillow_id_vars(frame), zillow_date_cols(frame))

\* mutant: no dropna, the rows without price kept
zillow_dropna_keeps_null(frame) ==
    LET long == zillow_long(frame)
        conv(r) == [c \in DOMAIN r |->
                      IF c = "date" THEN to_datetime(r.date)
                      ELSE IF c = "price" THEN to_numeric(r.price)
                      ELSE r[c]]
    IN [cols |-> long.cols, rows |-> MapRows(long.rows, conv)]

\* lines 60-64: to_datetime, to_numeric, dropna(subset=['price'])
zillow_dropna(frame) ==
    LET long == zillow_long(frame)
        conv(r) == [c \in DOMAIN r |->
                      IF c = "date" THEN to_datetime(r.date)
                      ELSE IF c = "price" THEN to_numeric(r.price)
                      ELSE r[c]]
        typed == MapRows(long.rows, conv)
    IN [cols |-> long.cols,
        rows |-> FilterRows(typed, {i \in DOMAIN typed : NotNa(typed[i].price)})]

\* what the try block raises on: an unparseable date column (line 60), or a row
\* to identify without a RegionID column (line 68)
zillow_raises(frame) ==
    \/ \E r \in Range(zillow_long(frame).rows) : ~Parseable(Get(r.date))
    \/ /\ zillow_dropna(frame).rows # <<>>
       /\ ~Has(frame, "RegionID")

\* df_clean after line 70: the long frame with listing_id added
zillow_identified(frame) ==
    LET d == zillow_dropna(frame)
        withId(r) == [c \in DOMAIN r \cup {"listing_id"} |->
                        IF c = "listing_id" THEN Some(md5_16(ZillowKeyText(r)))
                        ELSE r[c]]
    IN [cols |-> Append(d.cols, "listing_id"), rows |-> MapRows(d.rows, withId)]

\* lines 72-92: rename, defaults, column selection
zillow_canonical(d) ==
    LET present(c) ==
            CASE c = "region" -> Has(d, "StateName")
              [] c = "city" -> Has(d, "RegionName")
              [] OTHER -> TRUE
        outcols == SelectSeq(columns, present)
        canon(r) == [c \in Range(outcols) |->
                       CASE c = "listing_id" -> r.listing_id
                         [] c = "date" -> r.date
                         [] c = "region" -> r.StateName
                         [] c = "city" -> r.RegionName
                         [] c = "price" -> r.price
                         [] c = "property_type" -> Some("condo")
                         [] c = "sale_type" -> Some("sale")
                         [] c = "ownership" -> Some("unknown")
                         [] OTHER -> Null]
    IN [cols |-> outcols, rows |-> MapRows(d.rows, canon)]

\* mutant: the except clause hands back the frame it was given
clean_zillow_data_returns_input(frame) ==
    IF IsEmpty(frame) THEN EmptyDataFrame
    ELSE IF zillow_raises(frame) THEN frame
    ELSE IF zillow_dropna(frame).rows = <<>> THEN EmptyDataFrame
    ELSE zillow_canonical(zillow_identified(frame))

\* No row left after dropna: apply() never calls the lambda and the result has no
\* rows whichever way pandas builds it; it is the empty frame here.
clean_zillow_data(frame) ==
    IF IsEmpty(frame) THEN EmptyDataFrame
    ELSE IF zillow_raises(frame) THEN EmptyDataFrame
    ELSE IF zillow_dropna(frame).rows = <<>> THEN EmptyDataFrame
    ELSE zillow_canonical(zillow_identified(frame))

----------------------------------------------------------------------------
(* DataCleaner.clean_redfin_data *)

\* the text hashed for a Redfin row (line 117); x.get('region', '')
RedfinKeyText(x) ==
    "redfin_" \o (IF "region" \in DOMAIN x THEN StrOf(x.region) ELSE "")
              \o "_" \o StrOfTimestamp(x.period_end)

\* lines 144-148: Series.replace on the lowered label
replace_property_type(label) ==
    CASE label = "single family residential" -> "independent"
      [] label = "condo/co-op" -> "condo"
      [] label = "townhouse" -> "townhouse"
      [] OTHER -> label

\* what the try block raises on: no period_end column or an unparseable one
\* (line 112); .str on a property_type column that holds no text (line 143)
redfin_raises(frame) ==
    \/ ~Has(frame, "period_end")
    \/ \E r \in Range(frame.rows) : NotNa(r.period_end) /\ ~Parseable(Get(r.period_end))
    \/ /\ Has(frame, "property_type")
       /\ \A r \in Range(frame.rows) : IsNull(r.property_type)

\* df_clean after line 120
redfin_identified(frame) ==
    LET conv(r) == [c \in DOMAIN r |->
                      IF c = "period_end" THEN to_datetime(r.period_end) ELSE r[c]]
        withId(r) == [c \in DOMAIN r \cup {"listing_id"} |->
                        IF c = "listing_id" THEN Some(md5_16(RedfinKeyText(r)))
                        ELSE r[c]]
    IN [cols |-> Append(frame.cols, "listing_id"),
        rows |-> MapRows(MapRows(frame.rows, conv), withId)]

\* lines 141-150
redfin_property_type(d, r) ==
    IF Has(d, "property_type")
    THEN IF IsNull(r.property_type) THEN Null
         ELSE Some(replace_property_type(lower(Get(r.property_type))))
    ELSE Some("other")

\* mutant: the rename map with region and state_code the other way round
redfin_canonical_swapped(d) ==
    LET present(c) ==
            CASE c = "date" -> Has(d, "period_end")
              [] c = "region" -> Has(d, "region")
              [] c = "city" -> Has(d, "state_code")
              [] c = "price" -> Has(d, "median_sale_price")
              [] OTHER -> TRUE
        outcols == SelectSeq(columns, present)
        canon(r) == [c \in Range(outcols) |->
                       CASE c = "listing_id" -> r.listing_id
                         [] c = "date" -> r.period_end
                         [] c = "region" -> r.region
                         [] c = "city" -> r.state_code
                         [] c = "price" -> r.median_sale_price
                         [] c = "property_type" -> redfin_property_type(d, r)
                         [] c = "sale_type" -> Some("sale")
                         [] c = "ownership" -> Some("unknown")
                         [] OTHER -> Null]
    IN [cols |-> outcols, rows |-> MapRows(d.rows, canon)]

\* lines 122-157: rename, defaults, property type, column selection
redfin_canonical(d) ==
    LET present(c) ==
            CASE c = "date" -> Has(d, "period_end")
              [] c = "region" -> Has(d, "state_code")
              [] c = "city" -> Has(d, "region")
              [] c = "price" -> Has(d, "median_sale_price")
              [] OTHER -> TRUE
        outcols == SelectSeq(columns, present)
        canon(r) == [c \in Range(outcols) |->
                       CASE c = "listing_id" -> r.listing_id
                         [] c = "date" -> r.period_end
                         [] c = "region" -> r.state_code
                         [] c = "city" -> r.region
                         [] c = "price" -> r.median_sale_price
                         [] c = "property_type" -> redfin_property_type(d, r)
                         [] c = "sale_type" -> Some("sale")
                         [] c = "ownership" -> Some("unknown")
                         [] OTHER -> Null]
    IN [cols |-> outcols, rows |-> MapRows(d.rows, canon)]

\* mutant: drop_duplicates(keep='last')
drop_duplicates_keep_last(d) ==
    [cols |-> d.cols,
     rows |-> FilterRows(d.rows,
                {i \in DOMAIN d.rows :
                   \A j \in (i + 1)..Len(d.rows) :
                      d.rows[j].listing_id # d.rows[i].listing_id})]

\* line 160: drop_duplicates(subset=['listing_id']), the first of each kept
drop_duplicates(d) ==
    [cols |-> d.cols,
     rows |-> FilterRows(d.rows,
                {i \in DOMAIN d.rows :
                   \A j \in 1..(i - 1) : d.rows[j].listing_id # d.rows[i].listing_id})]

clean_redfin_data(frame) ==
    IF IsEmpty(frame) THEN EmptyDataFrame
    ELSE IF redfin_raises(frame) THEN EmptyDataFrame
    ELSE drop_duplicates(redfin_canonical(redfin_identified(frame)))

----------------------------------------------------------------------------
(* DataCleaner.validate_data *)

\* a comparison with a missing value is False
InRange(x, lo, hi) == \E v \in x : v >= lo /\ v <= hi
OutOfRange(x, lo, hi) == \E v \in x : v < lo \/ v > hi

\* mutant: the upper price bound taken as exclusive
validate_price_exclusive(d) ==
    IF Has(d, "price")
    THEN [cols |-> d.cols,
          rows |-> FilterRows(d.rows,
                     {i \in DOMAIN d.rows :
                        \E v \in d.rows[i].price : v >= min_price /\ v < max_price})]
    ELSE d

\* lines 176-182
validate_price(d) ==
    IF Has(d, "price")
    THEN [cols |-> d.cols,
          rows |-> FilterRows(d.rows,
                     {i \in DOMAIN d.rows : InRange(d.rows[i].price, min_price, max_price)})]
    ELSE d

\* mutant: the bedrooms rule written with the bounds of bathrooms
validate_soft_swapped(d) ==
    LET fix(r) == [c \in DOMAIN r |->
                     CASE c = "sqft" ->
                            IF OutOfRange(r[c], min_sqft, max_sqft) THEN Null ELSE r[c]
                       [] c = "bedrooms" ->
                            IF OutOfRange(r[c], min_bath, max_bath) THEN Null ELSE r[c]
                       [] c = "bathrooms" ->
                            IF OutOfRange(r[c], min_bath, max_bath) THEN Null ELSE r[c]
                       [] OTHER -> r[c]]
    IN [cols |-> d.cols, rows |-> MapRows(d.rows, fix)]

\* lines 184-209: .loc[mask, field] = None, for the fields the frame has
validate_soft(d) ==
    LET fix(r) == [c \in DOMAIN r |->
                     CASE c = "sqft" ->
                            IF OutOfRange(r[c], min_sqft, max_sqft) THEN Null ELSE r[c]
                       [] c = "bedrooms" ->
                            IF OutOfRange(r[c], min_bed, max_bed) THEN Null ELSE r[c]
                       [] c = "bathrooms" ->
                            IF OutOfRange(r[c], min_bath, max_bath) THEN Null ELSE r[c]
                       [] OTHER -> r[c]]
    IN [cols |-> d.cols, rows |-> MapRows(d.rows, fix)]

validate_data(d) == validate_soft(validate_price(d))

----------------------------------------------------------------------------
(* The store: table listings, unique on listing_id (ON CONFLICT (listing_id)) *)

\* mutant: a table whose region column is nullable
StoreConstraintsNullableRegion(p) ==
    /\ NotNa(p.listing_id)
    /\ NotNa(p.date)
    /\ NotNa(p.price)

\* The table's constraints on a proposed row.  The schema is not part of the
\* sources; the data model requires price, region, period and identifier of every
\* persisted record to be non-null.
StoreConstraintsOK(p) ==
    /\ NotNa(p.listing_id)
    /\ NotNa(p.date)
    /\ NotNa(p.region)
    /\ NotNa(p.price)

\* The table is the sequence of its rows in insertion order.
HasId(table, id) == \E i \in DOMAIN table : table[i].listing_id = id

\* INSERT of the twelve columns named at lines 243-247; updated_at is not set
InsertedRow(p) ==
    [c \in Range(columns) \cup {"updated_at"} |-> IF c = "updated_at" THEN Null ELSE p[c]]

\* mutant: a plain INSERT, no ON CONFLICT clause and no unique index
UpsertAlwaysInsert(table, p, ts) == Append(table, InsertedRow(p))

\* mutant: DO UPDATE SET of every column
UpsertAllColumns(table, p, ts) ==
    IF HasId(table, p.listing_id)
    THEN [i \in DOMAIN table |->
            IF table[i].listing_id = p.listing_id
            THEN [c \in DOMAIN table[i] |-> IF c = "updated_at" THEN Some(ts) ELSE p[c]]
            ELSE table[i]]
    ELSE Append(table, InsertedRow(p))

\* lines 241-252: INSERT ... ON CONFLICT (listing_id) DO UPDATE SET price, updated_at
Upsert(table, p, ts) ==
    IF HasId(table, p.listing_id)
    THEN [i \in DOMAIN table |->
            IF table[i].listing_id = p.listing_id
            THEN [table[i] EXCEPT !.price = p.price, !.updated_at = Some(ts)]
            ELSE table[i]]
    ELSE Append(table, InsertedRow(p))

----------------------------------------------------------------------------
(* DataLoader.load_listings *)

\* row[c] raises KeyError when the frame lacks column c (lines 255-257, 260)
RequiredColumns == {"listing_id", "date", "region", "price"}
params_raise(row) == ~(RequiredColumns \subseteq DOMAIN row)

\* lines 254-267: row.get(c) is None for a column the frame lacks; a missing
\* number becomes None
statement_params(row) ==
    [c \in Range(columns) |-> IF c \in DOMAIN row THEN row[c] ELSE Null]

\* mutant: the warning written for the first two failures only
LogFailureUnderThree(lines, failed, i) ==
    IF failed < 3 THEN Append(lines, [what |-> "skipping", n |-> i]) ELSE lines

\* lines 275-277 and 319-321: the warning on failed record i, when it is one of
\* the first three failures (failed is the count with this one)
LogFailure(lines, failed, i) ==
    IF failed <= 3 THEN Append(lines, [what |-> "skipping", n |-> i]) ELSE lines

\* lines 280-281 and 324-325: one line for the failures after the third
LogRemainder(lines, failed) ==
    IF failed > 3 THEN Append(lines, [what |-> "more_failed", n |-> failed - 3]) ELSE lines

\* What one pass of the loop body does to the store and the counters.
\*   fault "connect": engine.begin() raises; "commit": the commit at the end of
\*   the with block raises, after records_loaded += 1 (line 268)
LoadOutcome(row, fault) ==
    IF fault = "connect" THEN "failed"
    ELSE IF params_raise(row) THEN "failed"
    ELSE IF ~StoreConstraintsOK(statement_params(row)) THEN "failed"
    ELSE IF fault = "commit" THEN "counted_then_failed"
    ELSE "committed"

----------------------------------------------------------------------------
(* The store: table macro_indicators, unique on (region, date)
   (ON CONFLICT (region, date)); DataLoader.load_macro_indicators *)

HasKey(table, region, date) ==
    \E i \in DOMAIN table : table[i].region = region /\ table[i].date = date

\* INSERT of the three columns named at lines 303-304; updated_at is not set
InsertedMacroRow(p) ==
    [region |-> p.region, date |-> p.date, mortgage_rate |-> p.mortgage_rate,
     updated_at |-> Null]

\* mutant: a plain INSERT, no ON CONFLICT clause and no unique index
MacroUpsertAlwaysInsert(table, p, ts) == Append(table, InsertedMacroRow(p))

\* lines 301-309: INSERT ... ON CONFLICT (region, date) DO UPDATE SET
\* mortgage_rate, updated_at
MacroUpsert(table, p, ts) ==
    IF HasKey(table, p.region, p.date)
    THEN [i \in DOMAIN table |->
            IF table[i].region = p.region /\ table[i].date = p.date
            THEN [table[i] EXCEPT !.mortgage_rate = p.mortgage_rate,
                                  !.updated_at = Some(ts)]
            ELSE table[i]]
    ELSE Append(table, InsertedMacroRow(p))

\* lines 313-314: row['date'] and row['value'] raise KeyError when the frame
\* lacks the column; float() of a text that is no number raises ValueError
macro_params_raise(row) ==
    \/ ~({"date", "value"} \subseteq DOMAIN row)
    \/ row.value.kind = "text"

\* lines 311-315: the date as read, the value as a float, None when missing
macro_params(row, region) ==
    [region |-> Some(region), date |-> row.date, mortgage_rate |-> to_numeric(row.value)]

\* What one pass of the loop body does to the store and the counters; the faults
\* as in LoadOutcome, records_loaded += 1 at line 316.
MacroOutcome(row, fault) ==
    IF fault = "connect" THEN "failed"
    ELSE IF macro_params_raise(row) THEN "failed"
    ELSE IF fault = "commit" THEN "counted_then_failed"
    ELSE "committed"

----------------------------------------------------------------------------
(* Bounds and inputs *)

MaxRows == 2      \* rows of a raw snapshot
MaxRuns == 2      \* runs of main() over the same raw directory
MaxFaults == 1    \* store faults (connection, commit) injected over a behaviour

RECURSIVE SeqsUpTo(_, _)
SeqsUpTo(S, n) ==
    IF n = 0 THEN {<<>>}
    ELSE LET shorter == SeqsUpTo(S, n - 1)
         IN shorter \cup {Append(q, x) : q \in {t \in shorter : Len(t) = n - 1}, x \in S}

ZRow(id, name, state, cell) ==
    [RegionID |-> id, RegionName |-> name, StateName |-> state, d1 |-> cell]
ZFrame(rows) ==
    [cols |-> <<"RegionID", "RegionName", "StateName", "2020-01-31">>,
     rows |-> MapRows(rows, LAMBDA r :
                 [c \in {"RegionID", "RegionName", "StateName", "2020-01-31"} |->
                    CASE c = "RegionID" -> r.RegionID
                      [] c = "RegionName" -> r.RegionName
                      [] c = "StateName" -> r.StateName
                      [] OTHER -> r.d1])]

\* Zillow rows of the pipeline runs: a repeated RegionID with another name and
\* price, a row without a state, a price over the limit
ZillowRows ==
    {ZRow("102001", Some("Miami"), Some("FL"), NumCell(250000)),
     ZRow("102001", Some("Tampa"), Some("FL"), NumCell(300000)),
     ZRow("394913", Some("United States"), Null, NumCell(250000)),
     ZRow("394913", Some("Orlando"), Some("FL"), NumCell(100000001))}
\* a snapshot without one of its columns
DropColumn(frame, col) ==
    [cols |-> SelectSeq(frame.cols, LAMBDA c : c # col),
     rows |-> MapRows(frame.rows, LAMBDA r : [c \in DOMAIN r \ {col} |-> r[c]])]
OneRow(frames) == {f \in frames : Len(f.rows) = 1}

ZillowFull == {ZFrame(q) : q \in SeqsUpTo(ZillowRows, MaxRows)}
ZillowSnapshots ==
    ZillowFull \cup {DropColumn(f, c) : f \in OneRow(ZillowFull), c \in {"RegionID", "StateName"}}

RedfinCols == <<"period_end", "region", "state_code", "median_sale_price", "property_type">>
RRow(period, region, state, price, ptype) ==
    [period_end |-> period, region |-> region, state_code |-> state,
     median_sale_price |-> price, property_type |-> ptype]
RFrame(rows) == [cols |-> RedfinCols, rows |-> rows]

\* Redfin rows of the pipeline runs: two property types of one region and period,
\* and a row without a period
RedfinRows ==
    {RRow(Some("2020-01-31"), Some("Florida"), Some("FL"), Some(300000), Some("All Residential")),
     RRow(Some("2020-01-31"), Some("Florida"), Some("FL"), Some(280000), Some("Condo/Co-op")),
     RRow(Null, Some("Texas"), Some("TX"), Some(200000), Some("Townhouse"))}
RedfinFull == {RFrame(q) : q \in SeqsUpTo(RedfinRows, MaxRows)}
RedfinSnapshots ==
    RedfinFull \cup {DropColumn(f, c) : f \in OneRow(RedfinFull),
                                        c \in {"period_end", "median_sale_price"}}

\* A FRED observations file as read: the date as text, the value a number or the
\* text "." the provider writes for a missing observation
FRow(date, value) == [date |-> Some(date), value |-> value]
FFrame(rows) == [cols |-> <<"date", "value">>, rows |-> rows]

\* two rates of one date, and a missing observation of another
FredRows ==
    {FRow("2020-01-31", NumCell(3)),
     FRow("2020-01-31", NumCell(7)),
     FRow("2020-02-29", TextCell)}
FredFull == {FFrame(q) : q \in SeqsUpTo(FredRows, MaxRows)}
FredSnapshots == FredFull \cup {DropColumn(f, "date") : f \in OneRow(FredFull)}

Faults == {"connect", "commit"}

----------------------------------------------------------------------------
(* The raw directory (config.RAW_DATA_DIR) and what main() reads of it *)

\* A snapshot file: the date stamp of its name (strftime("%Y%m%d") in
\* fetch_data.py, digit by digit) and the frame pd.read_csv gives of it; a file
\* pd.read_csv raises on (an empty file, say) has no frame.
File(stamp, frame) == [name |-> stamp, frame |-> frame]
Stamp1 == <<2, 0, 2, 3, 1, 2, 3, 1>>
Stamp2 == <<2, 0, 2, 4, 0, 1, 0, 5>>

\* str < str of two file names of one kind, which differ in the stamp only
RECURSIVE LexLess(_, _)
LexLess(a, b) ==
    IF a = <<>> THEN b # <<>>
    ELSE IF b = <<>> THEN FALSE
    ELSE IF Head(a) # Head(b) THEN Head(a) < Head(b)
    ELSE LexLess(Tail(a), Tail(b))

\* mutant: the file with the least name
min(files) == CHOOSE f \in files : \A g \in files : ~LexLess(g.name, f.name)

\* max(files) of the paths glob returned (lines 360, 372, 384)
max(files) == CHOOSE f \in files : \A g \in files : ~LexLess(f.name, g.name)

Kinds == {"zillow", "redfin", "fred"}

----------------------------------------------------------------------------
(* main(): the runs of the pipeline *)

Idle == [at |-> "idle", src |-> "none"]
At(place, src) == [at |-> place, src |-> src]

\* the order of the sources in main (lines 358-390)
AfterSource(src) ==
    CASE src = "zillow" -> At("clean", "redfin")
      [] src = "redfin" -> At("clean", "fred")
      [] OTHER -> At("summary", "none")

\* the rows of the table without the store-side timestamp
Canonical(table) == MapRows(table, LAMBDA r : [c \in Range(columns) |-> r[c]])

NoLoad == [failed |-> {}, committed |-> {}, before |-> <<>>]
NoneRead == [k \in Kinds |-> {}]
NoneReturned == [k \in Kinds |-> Null]

\* the history kept for the claims: store faults injected, the load in progress,
\* the listings table after each run, the files read and the counts the loaders
\* returned in the run in progress, what the run printed as its summary, and how
\* each run ended
NoHistory ==
    [faults |-> 0, load |-> NoLoad, after_run |-> <<>>, read |-> NoneRead,
     returned |-> NoneReturned, summary |-> Null, outcomes |-> <<>>]

InitMain(dirs, up) ==
    /\ raw \in dirs
    /\ store_up \in up
    /\ pc = Idle
    /\ df = EmptyDataFrame
    /\ idx = 0
    /\ records_loaded = 0
    /\ records_failed = 0
    /\ total_loaded = 0
    /\ listings = <<>>
    /\ macro_indicators = <<>>
    /\ now = 0
    /\ run = 0
    /\ log = <<>>
    /\ closed = 0
    /\ hist = NoHistory

\* one snapshot at most of each listings source, no macro snapshot, store up
Init ==
    InitMain([zillow : {{}} \cup {{File(Stamp2, Some(z))} : z \in ZillowSnapshots},
              redfin : {{}} \cup {{File(Stamp2, Some(r))} : r \in RedfinSnapshots},
              fred : {{}}],
             {TRUE})

\* lines 343-356; the DataLoader made at line 344 has not been closed
StartRun ==
    /\ pc = Idle
    /\ run < MaxRuns
    /\ pc' = At("clean", "zillow")
    /\ total_loaded' = 0
    /\ hist' = [hist EXCEPT !.read = NoneRead, !.returned = NoneReturned,
                            !.summary = Null]
    /\ closed' = 0
    /\ UNCHANGED <<raw, df, idx, records_loaded, records_failed, listings, now, run, log>>
    /\ UNCHANGED macroFrame

\* lines 367-368, 379-380, 389-390: no file of the kind
SkipSource ==
    /\ pc.at = "clean"
    /\ raw[pc.src] = {}
    /\ pc' = AfterSource(pc.src)
    /\ UNCHANGED <<raw, df, idx, records_loaded, records_failed, total_loaded,
                   listings, now, run, hist>>
    /\ UNCHANGED macroFrame
    /\ UNCHANGED outFrame

\* the file main reads for the source it is at, and the frame read of it
latest == max(raw[pc.src])
Reading == [hist EXCEPT !.read[pc.src] = @ \cup {latest.name}]

\* lines 359-363
CleanZillow ==
    /\ pc = At("clean", "zillow")
    /\ raw.zillow # {}
    /\ NotNa(latest.frame)
    /\ df' = clean_zillow_data(Get(latest.frame))
    /\ pc' = At("validate", "zillow")
    /\ hist' = Reading
    /\ UNCHANGED <<raw, idx, records_loaded, records_failed, total_loaded,
                   listings, now, run>>
    /\ UNCHANGED macroFrame
    /\ UNCHANGED outFrame

\* lines 371-375
CleanRedfin ==
    /\ pc = At("clean", "redfin")
    /\ raw.redfin # {}
    /\ NotNa(latest.frame)
    /\ df' = clean_redfin_data(Get(latest.frame))
    /\ pc' = At("validate", "redfin")
    /\ hist' = Reading
    /\ UNCHANGED <<raw, idx, records_loaded, records_failed, total_loaded,
                   listings, now, run>>
    /\ UNCHANGED macroFrame
    /\ UNCHANGED outFrame

\* lines 364, 376
Validate ==
    /\ pc.at = "validate"
    /\ df' = validate_data(df)
    /\ pc' = At("load", pc.src)
    /\ UNCHANGED <<raw, idx, records_loaded, records_failed, total_loaded,
                   listings, now, run, hist>>
    /\ UNCHANGED macroFrame
    /\ UNCHANGED outFrame

\* load_listings, lines 228-235; an empty frame returns 0 to main at once
LoadBegin ==
    /\ pc.at = "load"
    /\ IF IsEmpty(df)
       THEN /\ pc' = AfterSource(pc.src)
            /\ hist' = [hist EXCEPT !.returned[pc.src] = Some(0)]
            /\ UNCHANGED <<idx, records_loaded, records_failed>>
       ELSE /\ pc' = At("loop", pc.src)
            /\ idx' = 1
            /\ records_loaded' = 0
            /\ records_failed' = 0
            /\ hist' = [hist EXCEPT !.load = [NoLoad EXCEPT !.before = listings]]
    /\ log' = <<>>
    /\ UNCHANGED <<raw, df, total_loaded, listings, now, run, closed>>
    /\ UNCHANGED macroFrame

\* mutant: the first failure ends the loop (no per-record try/except)
LoadStepAbort(fault) ==
    LET row == df.rows[idx]
        outcome == LoadOutcome(row, fault)
    IN /\ listings' = IF outcome = "committed"
                      THEN Upsert(listings, statement_params(row), now + 1)
                      ELSE listings
       /\ records_loaded' = IF outcome \in {"committed", "counted_then_failed"}
                            THEN records_loaded + 1 ELSE records_loaded
       /\ records_failed' = IF outcome \in {"failed", "counted_then_failed"}
                            THEN records_failed + 1 ELSE records_failed
       /\ hist' = [hist EXCEPT
                     !.faults = IF fault = "none" THEN @ ELSE @ + 1,
                     !.load.failed = IF outcome = "committed" THEN @ ELSE @ \cup {idx},
                     !.load.committed = IF outcome = "committed" THEN @ \cup {idx} ELSE @]
       /\ idx' = IF outcome = "committed" THEN idx + 1 ELSE Len(df.rows) + 1
       /\ log' = IF outcome = "committed" THEN log
                 ELSE LogFailure(log, records_failed + 1, idx)
       /\ now' = now + 1

\* load_listings, lines 237-278: one pass of the loop
LoadStep(fault) ==
    LET row == df.rows[idx]
        outcome == LoadOutcome(row, fault)
    IN /\ listings' = IF outcome = "committed"
                      THEN Upsert(listings, statement_params(row), now + 1)
                      ELSE listings
       /\ records_loaded' = IF outcome \in {"committed", "counted_then_failed"}
                            THEN records_loaded + 1 ELSE records_loaded
       /\ records_failed' = IF outcome \in {"failed", "counted_then_failed"}
                            THEN records_failed + 1 ELSE records_failed
       /\ hist' = [hist EXCEPT
                     !.faults = IF fault = "none" THEN @ ELSE @ + 1,
                     !.load.failed = IF outcome = "committed" THEN @ ELSE @ \cup {idx},
                     !.load.committed = IF outcome = "committed" THEN @ \cup {idx} ELSE @]
       /\ idx' = idx + 1
       /\ log' = IF outcome = "committed" THEN log
                 ELSE LogFailure(log, records_failed + 1, idx)
       /\ now' = now + 1

\* what a pass of a loader's loop may meet: with the store down, engine.begin()
\* raises every time
StoreFaults ==
    IF store_up
    THEN {"none"} \cup (IF hist.faults < MaxFaults THEN Faults ELSE {})
    ELSE {"connect"}

LoadRecord ==
    /\ pc.at = "loop"
    /\ idx <= Len(df.rows)
    /\ \E fault \in StoreFaults : LoadStep(fault)
    /\ UNCHANGED <<raw, pc, df, total_loaded, run, closed>>
    /\ UNCHANGED macroFrame

\* load_listings, lines 280-284, and main, lines 365-366, 377-378
LoadEnd ==
    /\ pc.at = "loop"
    /\ idx > Len(df.rows)
    /\ total_loaded' = total_loaded + records_loaded
    /\ pc' = AfterSource(pc.src)
    /\ hist' = [hist EXCEPT !.returned[pc.src] = Some(records_loaded)]
    /\ log' = LogRemainder(log, records_failed)
    /\ UNCHANGED <<raw, df, idx, records_loaded, records_failed, listings, now, run,
                   closed>>
    /\ UNCHANGED macroFrame

\* lines 393-397: what the run prints
Summary ==
    [total_records_loaded |-> total_loaded,
     files_processed |-> Cardinality(raw.zillow) + Cardinality(raw.redfin)
                           + Cardinality(raw.fred)]

\* lines 392-399 and 405-406: the summary, "completed successfully", then
\* loader.close()
Finish ==
    /\ pc.at = "summary"
    /\ pc' = Idle
    /\ run' = run + 1
    /\ hist' = [hist EXCEPT !.after_run = Append(@, Canonical(listings)),
                            !.summary = Some(Summary),
                            !.outcomes = Append(@, "completed")]
    /\ closed' = closed + 1
    /\ UNCHANGED <<raw, df, idx, records_loaded, records_failed, total_loaded,
                   listings, now, log>>
    /\ UNCHANGED macroFrame

\* lines 383-386: the macro snapshot is loaded as read
ReadFred ==
    /\ pc = At("clean", "fred")
    /\ raw.fred # {}
    /\ NotNa(latest.frame)
    /\ df' = Get(latest.frame)
    /\ pc' = At("macro_load", "fred")
    /\ hist' = Reading
    /\ UNCHANGED <<raw, idx, records_loaded, records_failed, total_loaded,
                   listings, now, run>>
    /\ UNCHANGED macroFrame
    /\ UNCHANGED outFrame

\* the region main names at line 387
FredRegion == "florida"

\* load_macro_indicators, lines 288-295; an empty frame returns 0 to main at once
MacroBegin ==
    /\ pc.at = "macro_load"
    /\ IF IsEmpty(df)
       THEN /\ pc' = AfterSource(pc.src)
            /\ hist' = [hist EXCEPT !.returned[pc.src] = Some(0)]
            /\ UNCHANGED <<idx, records_loaded, records_failed>>
       ELSE /\ pc' = At("macro_loop", pc.src)
            /\ idx' = 1
            /\ records_loaded' = 0
            /\ records_failed' = 0
            /\ hist' = [hist EXCEPT !.load = [NoLoad EXCEPT !.before = macro_indicators]]
    /\ log' = <<>>
    /\ UNCHANGED <<raw, df, total_loaded, listings, now, run, closed>>
    /\ UNCHANGED macroFrame

\* mutant: the first failure ends the loop (no per-record try/except)
MacroStepAbort(fault) ==
    LET row == df.rows[idx]
        outcome == MacroOutcome(row, fault)
    IN /\ macro_indicators' =
            IF outcome = "committed"
            THEN MacroUpsert(macro_indicators, macro_params(row, FredRegion), now + 1)
            ELSE macro_indicators
       /\ records_loaded' = IF outcome \in {"committed", "counted_then_failed"}
                            THEN records_loaded + 1 ELSE records_loaded
       /\ records_failed' = IF outcome \in {"failed", "counted_then_failed"}
                            THEN records_failed + 1 ELSE records_failed
       /\ hist' = [hist EXCEPT
                     !.faults = IF fault = "none" THEN @ ELSE @ + 1,
                     !.load.failed = IF outcome = "committed" THEN @ ELSE @ \cup {idx},
                     !.load.committed = IF outcome = "committed" THEN @ \cup {idx} ELSE @]
       /\ idx' = IF outcome = "committed" THEN idx + 1 ELSE Len(df.rows) + 1
       /\ log' = IF outcome = "committed" THEN log
                 ELSE LogFailure(log, records_failed + 1, idx)
       /\ now' = now + 1

\* load_macro_indicators, lines 297-322: one pass of the loop
MacroStep(fault) ==
    LET row == df.rows[idx]
        outcome == MacroOutcome(row, fault)
    IN /\ macro_indicators' =
            IF outcome = "committed"
            THEN MacroUpsert(macro_indicators, macro_params(row, FredRegion), now + 1)
            ELSE macro_indicators
       /\ records_loaded' = IF outcome \in {"committed", "counted_then_failed"}
                            THEN records_loaded + 1 ELSE records_loaded
       /\ records_failed' = IF outcome \in {"failed", "counted_then_failed"}
                            THEN records_failed + 1 ELSE records_failed
       /\ hist' = [hist EXCEPT
                     !.faults = IF fault = "none" THEN @ ELSE @ + 1,
                     !.load.failed = IF outcome = "committed" THEN @ ELSE @ \cup {idx},
                     !.load.committed = IF outcome = "committed" THEN @ \cup {idx} ELSE @]
       /\ idx' = idx + 1
       /\ log' = IF outcome = "committed" THEN log
                 ELSE LogFailure(log, records_failed + 1, idx)
       /\ now' = now + 1

MacroRecord ==
    /\ pc.at = "macro_loop"
    /\ idx <= Len(df.rows)
    /\ \E fault \in StoreFaults : MacroStep(fault)
    /\ UNCHANGED <<raw, pc, df, total_loaded, listings, store_up, run, closed>>

\* load_macro_indicators, lines 324-328, and main, lines 387-388
MacroEnd ==
    /\ pc.at = "macro_loop"
    /\ idx > Len(df.rows)
    /\ total_loaded' = total_loaded + records_loaded
    /\ pc' = AfterSource(pc.src)
    /\ hist' = [hist EXCEPT !.returned[pc.src] = Some(records_loaded)]
    /\ log' = LogRemainder(log, records_failed)
    /\ UNCHANGED <<raw, df, idx, records_loaded, records_failed, listings, now, run,
                   closed>>
    /\ UNCHANGED macroFrame

\* lines 362, 374, 386: pd.read_csv raises on the file; control passes to the
\* except clause of main
ReadRaises ==
    /\ pc.at = "clean"
    /\ raw[pc.src] # {}
    /\ IsNull(latest.frame)
    /\ pc' = At("except", pc.src)
    /\ hist' = Reading
    /\ UNCHANGED <<raw, df, idx, records_loaded, records_failed, total_loaded,
                   listings, now, run>>
    /\ UNCHANGED macroFrame
    /\ UNCHANGED outFrame

\* mutant: no finally clause; the error is raised again with the loader open
ExceptWithoutClose ==
    /\ pc.at = "except"
    /\ pc' = Idle
    /\ run' = run + 1
    /\ hist' = [hist EXCEPT !.after_run = Append(@, Canonical(listings)),
                            !.outcomes = Append(@, "failed")]
    /\ UNCHANGED <<raw, df, idx, records_loaded, records_failed, total_loaded,
                   listings, now, log, closed>>
    /\ UNCHANGED macroFrame

\* lines 401-406: the error is logged and raised again, after loader.close()
Except ==
    /\ pc.at = "except"
    /\ pc' = Idle
    /\ run' = run + 1
    /\ hist' = [hist EXCEPT !.after_run = Append(@, Canonical(listings)),
                            !.outcomes = Append(@, "failed")]
    /\ closed' = closed + 1
    /\ UNCHANGED <<raw, df, idx, records_loaded, records_failed, total_loaded,
                   listings, now, log>>
    /\ UNCHANGED macroFrame

Next ==
    \/ StartRun
    \/ SkipSource
    \/ CleanZillow
    \/ CleanRedfin
    \/ Validate
    \/ LoadBegin
    \/ LoadRecord
    \/ LoadEnd
    \/ Finish

Spec == Init /\ [][Next]_vars

----------------------------------------------------------------------------
(* Claims on the runs of main() *)

LoadFinished == pc.at = "loop" /\ idx > Len(df.rows)

\* C1: with no store fault, every replay of main() on the same raw snapshots
\* leaves the listings table with the rows (count and the twelve column values)
\* it had after the first run; and no listing_id is ever held by two rows.
C1_Idempotent ==
    /\ \A i, j \in DOMAIN listings :
          listings[i].listing_id = listings[j].listing_id => i = j
    /\ hist.faults = 0 =>
          \A k \in DOMAIN hist.after_run : hist.after_run[k] = hist.after_run[1]

\* a replay that met rows of the first run: two runs done, rows of both kinds stored
C1_Witness ==
    /\ run = 2
    /\ hist.faults = 0
    /\ Len(hist.after_run[1]) >= 2
    /\ \E i \in DOMAIN listings : NotNa(listings[i].updated_at)

\* C2: a step of load_listings that commits a record whose listing_id is new
\* appends one row holding the record's fields; one that commits a record whose
\* listing_id is stored changes only price (to the record's) and updated_at of
\* that row; every other step leaves the table as it is.
C2_UpsertFrame ==
    [][ IF pc.at = "loop" /\ idx <= Len(df.rows) /\ idx \in hist'.load.committed
        THEN LET rec == statement_params(df.rows[idx])
             IN IF HasId(listings, rec.listing_id)
                THEN /\ DOMAIN listings' = DOMAIN listings
                     /\ \A i \in DOMAIN listings :
                           IF listings[i].listing_id = rec.listing_id
                           THEN /\ listings'[i].price = rec.price
                                /\ \A c \in Range(columns) \ {"price"} :
                                      listings'[i][c] = listings[i][c]
                           ELSE listings'[i] = listings[i]
                ELSE /\ Len(listings') = Len(listings) + 1
                     /\ SubSeq(listings', 1, Len(listings)) = listings
                     /\ \A c \in Range(columns) :
                           listings'[Len(listings')][c] = rec[c]
        ELSE listings' = listings ]_vars

\* a committed record met a stored row of its listing_id with another city
C2_Witness ==
    /\ pc.at = "loop"
    /\ idx > 1
    /\ (idx - 1) \in hist.load.committed
    /\ \E i \in DOMAIN listings :
          /\ listings[i].listing_id = df.rows[idx - 1].listing_id
          /\ listings[i].city # df.rows[idx - 1].city
          /\ listings[i].price = df.rows[idx - 1].price
          /\ NotNa(listings[i].updated_at)

\* the table after upserting, in order, the rows of a batch not in skip
RECURSIVE ApplyRows(_, _, _)
ApplyRows(table, rows, skip) ==
    IF rows = <<>> THEN table
    ELSE LET n == Len(rows)
             front == ApplyRows(table, SubSeq(rows, 1, n - 1), skip)
         IN IF n \in skip THEN front ELSE Upsert(front, statement_params(rows[n]), 0)

\* C3: when exactly one record of a batch of N fails to write, the count of
\* failures is 1, the other N-1 records are committed, and the table holds what
\* loading the batch without that record gives.
C3_FailureIsolation ==
    (LoadFinished /\ Cardinality(hist.load.failed) = 1) =>
        /\ records_failed = 1
        /\ Cardinality(hist.load.committed) = Len(df.rows) - 1
        /\ Canonical(listings) =
              Canonical(ApplyRows(hist.load.before, df.rows, hist.load.failed))

\* a batch of two whose first record failed and whose second is stored
C3_Witness ==
    /\ LoadFinished
    /\ Len(df.rows) = 2
    /\ hist.load.failed = {1}
    /\ HasId(listings, df.rows[2].listing_id)
    /\ ~HasId(hist.load.before, df.rows[2].listing_id)

C22_IdentityAfterValidation ==
    pc.at = "validate" =>
        \A i \in DOMAIN df.rows : "listing_id" \notin DOMAIN df.rows[i]

----------------------------------------------------------------------------
(* The adapters called on their own: clean_zillow_data, clean_redfin_data *)

ZRow2(id, name, cell1, cell2) ==
    [RegionID |-> id, RegionName |-> name, StateName |-> Some("FL"),
     d1 |-> cell1, d2 |-> cell2]
ZFrame2(rows) ==
    [cols |-> <<"RegionID", "RegionName", "StateName", "2020-01-31", "2020-02-29">>,
     rows |-> MapRows(rows, LAMBDA r :
                 [c \in {"RegionID", "RegionName", "StateName", "2020-01-31", "2020-02-29"} |->
                    CASE c = "RegionID" -> r.RegionID
                      [] c = "RegionName" -> r.RegionName
                      [] c = "StateName" -> r.StateName
                      [] c = "2020-01-31" -> r.d1
                      [] OTHER -> r.d2])]

AdapterZillowRows ==
    {ZRow2(id, Some(name), c1, c2) :
        id \in {"102001", "394913"}, name \in {"Miami", "Tampa"},
        c1 \in {NumCell(250000), NumCell(300000), EmptyCell, TextCell},
        c2 \in {NumCell(250000), EmptyCell}}

\* a snapshot with a further text column, as the provider's files with a Metro
\* or State column have
WithTextColumn(frame, col) ==
    [cols |-> Append(frame.cols, col),
     rows |-> MapRows(frame.rows, LAMBDA r :
                 [c \in DOMAIN r \cup {col} |-> IF c = col THEN TextCell ELSE r[c]])]

AdapterZillowFull == {ZFrame2(q) : q \in SeqsUpTo(AdapterZillowRows, MaxRows)}
AdapterZillowInputs ==
    AdapterZillowFull
      \cup {DropColumn(f, c) : f \in OneRow(AdapterZillowFull), c \in {"RegionID", "RegionName"}}
      \cup {WithTextColumn(f, "Metro") : f \in OneRow(AdapterZillowFull)}

\* snapshots with three date columns: each entity with its own state, each
\* column with its own price, any cell possibly empty
ZRow3(id, name, state, cell1, cell2, cell3) ==
    [RegionID |-> id, RegionName |-> name, StateName |-> state,
     d1 |-> cell1, d2 |-> cell2, d3 |-> cell3]
ZFrame3(rows) ==
    [cols |-> <<"RegionID", "RegionName", "StateName",
                "2020-01-31", "2020-02-29", "2020-03-31">>,
     rows |-> MapRows(rows, LAMBDA r :
                 [c \in {"RegionID", "RegionName", "StateName",
                         "2020-01-31", "2020-02-29", "2020-03-31"} |->
                    CASE c = "RegionID" -> r.RegionID
                      [] c = "RegionName" -> r.RegionName
                      [] c = "StateName" -> r.StateName
                      [] c = "2020-01-31" -> r.d1
                      [] c = "2020-02-29" -> r.d2
                      [] OTHER -> r.d3])]
WideEntities ==
    {[id |-> "102001", name |-> "Miami", state |-> "FL"],
     [id |-> "394913", name |-> "Atlanta", state |-> "GA"]}
AdapterZillowWideRows ==
    {ZRow3(e.id, Some(e.name), Some(e.state), c1, c2, c3) :
        e \in WideEntities,
        c1 \in {NumCell(250000), EmptyCell},
        c2 \in {NumCell(300000), EmptyCell},
        c3 \in {NumCell(350000), EmptyCell}}
AdapterZillowWide == {ZFrame3(q) : q \in SeqsUpTo(AdapterZillowWideRows, MaxRows)}

AdapterRedfinRows ==
    {RRow(period, Some(region), Some("FL"), price, ptype) :
        period \in {Some("2020-01-31"), Some("2020-02-29"), Null},
        region \in {"Florida", "Texas"},
        price \in {Some(300000), Null},
        ptype \in {Some("Single Family Residential"), Some("Condo/Co-op"),
                   Some("All Residential"), Null}}
AdapterRedfinFull == {RFrame(q) : q \in SeqsUpTo(AdapterRedfinRows, MaxRows)}
AdapterRedfinInputs ==
    AdapterRedfinFull
      \cup {DropColumn(f, c) : f \in OneRow(AdapterRedfinFull),
                               c \in {"period_end", "region", "property_type"}}

NoRaw == [k \in Kinds |-> {}]

InitCall(fn, args) ==
    /\ df \in args
    /\ hist = [arg |-> df]
    /\ pc = At("call", fn)
    /\ raw = NoRaw
    /\ idx = 0
    /\ records_loaded = 0
    /\ records_failed = 0
    /\ total_loaded = 0
    /\ listings = <<>>
    /\ macro_indicators = <<>>
    /\ store_up = TRUE
    /\ now = 0
    /\ run = 0
    /\ log = <<>>
    /\ closed = 0

InitAdapter ==
    \/ InitCall("clean_zillow_data", AdapterZillowInputs)
    \/ InitCall("clean_zillow_data", AdapterZillowWide)
    \/ InitCall("clean_redfin_data", AdapterRedfinInputs)

callFrame == <<raw, idx, records_loaded, records_failed, total_loaded, listings,
               macro_indicators, store_up, now, run, log, closed, hist>>

\* lines 39-40, 97-99 and 105-106, 165-167: an empty input, or the except branch
AdapterAbandon ==
    /\ pc.at = "call"
    /\ \/ pc.src = "clean_zillow_data" /\ clean_zillow_data(df) = EmptyDataFrame
       \/ pc.src = "clean_redfin_data" /\ clean_redfin_data(df) = EmptyDataFrame
    /\ df' = EmptyDataFrame
    /\ pc' = At("return", pc.src)
    /\ UNCHANGED callFrame

\* lines 43-70 and 109-120: up to the listing_id column
AdapterIdentify ==
    /\ pc.at = "call"
    /\ \/ /\ pc.src = "clean_zillow_data"
          /\ clean_zillow_data(df) # EmptyDataFrame
          /\ df' = zillow_identified(df)
       \/ /\ pc.src = "clean_redfin_data"
          /\ clean_redfin_data(df) # EmptyDataFrame
          /\ df' = redfin_identified(df)
    /\ pc' = At("identified", pc.src)
    /\ UNCHANGED callFrame

\* lines 72-95 and 122-163: the canonical frame returned
AdapterStandardize ==
    /\ pc.at = "identified"
    /\ df' = IF pc.src = "clean_zillow_data" THEN clean_zillow_data(hist.arg)
             ELSE clean_redfin_data(hist.arg)
    /\ pc' = At("return", pc.src)
    /\ UNCHANGED callFrame

NextAdapter == AdapterAbandon \/ AdapterIdentify \/ AdapterStandardize

SpecAdapter == InitAdapter /\ [][NextAdapter]_vars

----------------------------------------------------------------------------
(* Claims on the adapters *)

\* the natural key and the period of a row of the identified frame
NaturalKey(r) ==
    IF pc.src = "clean_zillow_data" THEN Some(r.RegionID)
    ELSE IF "region" \in DOMAIN r THEN r.region ELSE Null
Period(r) == IF pc.src = "clean_zillow_data" THEN r.date ELSE r.period_end

\* C5: in the frame an adapter has identified, two rows with the same natural key
\* and the same period carry the same listing_id, whatever their price and their
\* other fields.
C5_IdentityDeterminism ==
    pc.at = "identified" =>
        \A i, j \in DOMAIN df.rows :
            (NaturalKey(df.rows[i]) = NaturalKey(df.rows[j])
               /\ Period(df.rows[i]) = Period(df.rows[j]))
            => df.rows[i].listing_id = df.rows[j].listing_id

\* two Zillow rows of one RegionID and date with different price and name
C5_Witness ==
    /\ pc = At("identified", "clean_zillow_data")
    /\ \E i, j \in DOMAIN df.rows :
          /\ df.rows[i].RegionID = df.rows[j].RegionID
          /\ df.rows[i].date = df.rows[j].date
          /\ df.rows[i].price # df.rows[j].price
          /\ df.rows[i].RegionName # df.rows[j].RegionName
          /\ df.rows[i].listing_id = df.rows[j].listing_id

\* C6: in the frame an adapter has identified, two rows that differ in natural
\* key or in period carry different listing_ids.
C6_IdentitySensitivity ==
    pc.at = "identified" =>
        \A i, j \in DOMAIN df.rows :
            (NaturalKey(df.rows[i]) # NaturalKey(df.rows[j])
               \/ Period(df.rows[i]) # Period(df.rows[j]))
            => df.rows[i].listing_id # df.rows[j].listing_id

\* Zillow rows of one RegionID at two dates, and of two RegionIDs at one date
C6_Witness ==
    /\ pc = At("identified", "clean_zillow_data")
    /\ \E i, j \in DOMAIN df.rows :
          df.rows[i].RegionID = df.rows[j].RegionID /\ df.rows[i].date # df.rows[j].date
    /\ \E i, j \in DOMAIN df.rows :
          df.rows[i].RegionID # df.rows[j].RegionID /\ df.rows[i].date = df.rows[j].date

\* C7: no two records of the frame an adapter returns carry the same listing_id.
C7_UniqueInBatch ==
    pc.at = "return" =>
        \A i, j \in DOMAIN df.rows :
            df.rows[i].listing_id = df.rows[j].listing_id => i = j

Vocabulary == {"independent", "condo", "townhouse", "apartment", "other"}

\* C10: every record an adapter returns has its property_type in the controlled
\* vocabulary.
C10_Vocabulary ==
    pc.at = "return" =>
        \A i \in DOMAIN df.rows :
            \E v \in Vocabulary : df.rows[i].property_type = Some(v)

\* the date columns of a raw Zillow frame, and the frames the reshape is claimed
\* for: some entity rows with their RegionID, no column but the id columns and
\* date columns
DateColumns(frame) == SelectSeq(frame.cols, LAMBDA c : c \in DOMAIN DateTable)
WideWellFormed(frame) ==
    /\ frame.rows # <<>>
    /\ Has(frame, "RegionID")
    /\ \A c \in Range(frame.cols) : c \in Range(ZillowIdVars) \/ c \in DOMAIN DateTable

\* identifier, period, region, locality and price of a canonical record
Core(r) == [c \in {"listing_id", "date", "region", "city", "price"} \cap DOMAIN r |-> r[c]]

\* the record of entity row i and date column c of a raw Zillow frame
PairRecord(frame, i, c) ==
    LET e == frame.rows[i]
        full == [listing_id |-> Some(md5_16("zillow_" \o e.RegionID \o "_" \o DateTable[c])),
                 date |-> Some(DateTable[c]),
                 region |-> IF Has(frame, "StateName") THEN e.StateName ELSE Null,
                 city |-> IF Has(frame, "RegionName") THEN e.RegionName ELSE Null,
                 price |-> IF e[c].kind = "num" THEN Some(e[c].n) ELSE Null]
        have == {"listing_id", "date", "price"}
                   \cup (IF Has(frame, "StateName") THEN {"region"} ELSE {})
                   \cup (IF Has(frame, "RegionName") THEN {"city"} ELSE {})
    IN [f \in have |-> full[f]]

\* the records returned are those of the pairs in P, one each
RecordsOfPairs(frame, P) ==
    /\ Len(df.rows) = Cardinality(P)
    /\ \A p \in P : \E k \in DOMAIN df.rows :
           Core(df.rows[k]) = PairRecord(frame, p[1], p[2])
    /\ \A k \in DOMAIN df.rows : \E p \in P :
           Core(df.rows[k]) = PairRecord(frame, p[1], p[2])

Pairs(frame) == (DOMAIN frame.rows) \X Range(DateColumns(frame))

\* C11 as stated: clean_zillow_data returns one record for every pair of an
\* entity row and a date column (E * D records), with the entity's key and region
\* and the column's date and price.
C11_OneRecordPerPair ==
    (pc = At("return", "clean_zillow_data") /\ WideWellFormed(hist.arg)) =>
        RecordsOfPairs(hist.arg, Pairs(hist.arg))

\* C11 as amended: so it is for the pairs whose cell holds a number; a pair whose
\* cell is empty or is no number gives no record.
C11_OneRecordPerPricedPair ==
    (pc = At("return", "clean_zillow_data") /\ WideWellFormed(hist.arg)) =>
        RecordsOfPairs(hist.arg,
            {p \in Pairs(hist.arg) : hist.arg.rows[p[1]][p[2]].kind = "num"})

\* one entity row with three priced date columns gave three records, of the
\* three dates and prices, all of the entity's region
C11_Witness ==
    /\ pc = At("return", "clean_zillow_data")
    /\ Len(hist.arg.rows) = 1
    /\ Len(DateColumns(hist.arg)) = 3
    /\ Len(df.rows) = 3
    /\ {df.rows[k].price : k \in 1..3} = {Some(250000), Some(300000), Some(350000)}
    /\ Cardinality({df.rows[k].date : k \in 1..3}) = 3
    /\ Cardinality({df.rows[k].listing_id : k \in 1..3}) = 3
    /\ \A k \in 1..3 : df.rows[k].region = hist.arg.rows[1].StateName

\* the raw Redfin frames the mapping is claimed for: some rows, the four mapped
\* columns, and a property_type column, if any, that holds a label
RedfinWellFormed(frame) ==
    /\ frame.rows # <<>>
    /\ \A c \in {"period_end", "region", "state_code", "median_sale_price"} : Has(frame, c)
    /\ Has(frame, "property_type") =>
          \E r \in Range(frame.rows) : NotNa(r.property_type)

\* output record out is input row r with its fields renamed
Renamed(out, r) ==
    /\ out.date = (IF IsNull(r.period_end) THEN Null ELSE Some(DateTable[Get(r.period_end)]))
    /\ out.region = r.state_code
    /\ out.city = r.region
    /\ out.price = r.median_sale_price

\* C12 as stated: clean_redfin_data returns one record for every input row, in
\* order, with period, region, locality and price those of the row's period_end,
\* state_code, region and median_sale_price.
C12_OneRecordPerRow ==
    (pc = At("return", "clean_redfin_data") /\ RedfinWellFormed(hist.arg)) =>
        /\ Len(df.rows) = Len(hist.arg.rows)
        /\ \A i \in DOMAIN hist.arg.rows :
              i \in DOMAIN df.rows /\ Renamed(df.rows[i], hist.arg.rows[i])

\* the input rows that are the first of their region and period_end
FirstOfKey(rows) ==
    FilterRows(rows,
        {i \in DOMAIN rows :
           \A j \in 1..(i - 1) :
              rows[j].region # rows[i].region \/ rows[j].period_end # rows[i].period_end})

\* C12 as amended: so it is for the input rows that are the first of their region
\* and period_end; a row that repeats the region and period_end of an earlier row
\* gives no record.
C12_OneRecordPerFirstRow ==
    (pc = At("return", "clean_redfin_data") /\ RedfinWellFormed(hist.arg)) =>
        LET first == FirstOfKey(hist.arg.rows)
        IN /\ Len(df.rows) = Len(first)
           /\ \A i \in DOMAIN first : Renamed(df.rows[i], first[i])

\* two rows of two regions gave two records, each with the state_code as region
\* and the region as locality
C12_Witness ==
    /\ pc = At("return", "clean_redfin_data")
    /\ Len(hist.arg.rows) = 2
    /\ Len(df.rows) = 2
    /\ df.rows[1].city = Some("Florida")
    /\ df.rows[2].city = Some("Texas")
    /\ df.rows[1].region = Some("FL")
    /\ df.rows[1].price = Some(300000)
    /\ df.rows[2].date = Some("2020-02-29 00:00:00")

\* the category clean_redfin_data makes of a raw label
CategoryOf(frame, r) ==
    IF ~Has(frame, "property_type") THEN Some("other")
    ELSE IF IsNull(r.property_type) THEN Null
    ELSE Some(replace_property_type(lower(Get(r.property_type))))

\* C27: of the input rows of clean_redfin_data that have the region and the
\* period_end of row i, one record is returned: it has the price and the
\* category of the first of these rows in input order, whatever the later ones
\* hold.
C27_FirstOfKeyKept ==
    (pc = At("return", "clean_redfin_data") /\ RedfinWellFormed(hist.arg)) =>
        \A i \in DOMAIN hist.arg.rows :
            LET rows == hist.arg.rows
                same == {j \in DOMAIN rows : /\ rows[j].region = rows[i].region
                                             /\ rows[j].period_end = rows[i].period_end}
                first == rows[CHOOSE j \in same : \A k \in same : j <= k]
                out == {k \in DOMAIN df.rows : /\ df.rows[k].city = rows[i].region
                                               /\ df.rows[k].date = to_datetime(rows[i].period_end)}
            IN /\ Cardinality(out) = 1
               /\ \A k \in out :
                     /\ df.rows[k].price = first.median_sale_price
                     /\ df.rows[k].property_type = CategoryOf(hist.arg, first)

\* two rows of one region and period, the first a priced condo, the second a
\* single family home without price, gave the one record of the condo
C27_Witness ==
    /\ pc = At("return", "clean_redfin_data")
    /\ Len(hist.arg.rows) = 2
    /\ hist.arg.rows[1].region = hist.arg.rows[2].region
    /\ hist.arg.rows[1].period_end = hist.arg.rows[2].period_end
    /\ hist.arg.rows[1].median_sale_price = Some(300000)
    /\ hist.arg.rows[1].property_type = Some("Condo/Co-op")
    /\ IsNull(hist.arg.rows[2].median_sale_price)
    /\ hist.arg.rows[2].property_type = Some("Single Family Residential")
    /\ Len(df.rows) = 1
    /\ df.rows[1].price = Some(300000)
    /\ df.rows[1].property_type = Some("condo")

\* the pairs of an entity row and a date column whose cell holds a number
PricedPairs(frame) == {p \in Pairs(frame) : frame.rows[p[1]][p[2]].kind = "num"}

\* row r of the identified frame is that of pair p: the entity's RegionID, the
\* column's date, the cell's number, the identifier of the two
IdentifiedOf(frame, p, r) ==
    LET e == frame.rows[p[1]]
    IN /\ r.RegionID = e.RegionID
       /\ r.date = Some(DateTable[p[2]])
       /\ r.price = Some(e[p[2]].n)
       /\ r.listing_id = Some(md5_16("zillow_" \o e.RegionID \o "_" \o DateTable[p[2]]))

\* C28: the frame clean_zillow_data gives identifiers to holds a row for a pair of
\* an entity and a date if and only if the pair's cell holds a number: no row of
\* it is without price, and it has as many rows as there are cells with a
\* number, as has the frame returned.
C28_NullPricesRemoved ==
    (pc.src = "clean_zillow_data" /\ WideWellFormed(hist.arg)) =>
        LET priced == PricedPairs(hist.arg)
        IN /\ pc.at = "identified" =>
                /\ Len(df.rows) = Cardinality(priced)
                /\ \A k \in DOMAIN df.rows : NotNa(df.rows[k].price)
                /\ \A p \in priced : \E k \in DOMAIN df.rows :
                       IdentifiedOf(hist.arg, p, df.rows[k])
                /\ \A k \in DOMAIN df.rows : \E p \in priced :
                       IdentifiedOf(hist.arg, p, df.rows[k])
           /\ pc.at = "return" =>
                /\ Len(df.rows) = Cardinality(priced)
                /\ \A k \in DOMAIN df.rows : NotNa(df.rows[k].price)

\* two entities and three date columns with four numbers in the six cells: four
\* rows were identified
C28_Witness ==
    /\ pc = At("identified", "clean_zillow_data")
    /\ Len(hist.arg.rows) = 2
    /\ hist.arg.rows[1].RegionID # hist.arg.rows[2].RegionID
    /\ Len(DateColumns(hist.arg)) = 3
    /\ Cardinality(PricedPairs(hist.arg)) = 4
    /\ Len(df.rows) = 4
    /\ hist.arg.rows[1]["2020-01-31"] = EmptyCell
    /\ \A k \in DOMAIN df.rows :
          ~(df.rows[k].RegionID = hist.arg.rows[1].RegionID
              /\ df.rows[k].date = Some("2020-01-31 00:00:00"))

\* C21: every record an adapter returns from a source that names neither a
\* transaction kind nor an occupancy kind (no raw frame here has a sale_type or an
\* ownership column) has sale_type "unknown" and ownership "unknown".
C21_ClassificationDefaults ==
    (pc.at = "return" /\ ~Has(hist.arg, "sale_type") /\ ~Has(hist.arg, "ownership")) =>
        \A i \in DOMAIN df.rows :
            /\ df.rows[i].sale_type = Some("unknown")
            /\ df.rows[i].ownership = Some("unknown")

----------------------------------------------------------------------------
(* validate_data called on its own *)

MaxBatch == 2     \* records of a frame given to validate_data

ValRow(price, sqft, bedrooms, bathrooms) ==
    [c \in Range(columns) |->
       CASE c = "listing_id" -> Some("7d4a175ba5c95745")
         [] c = "date" -> Some("2020-01-31 00:00:00")
         [] c = "region" -> Some("FL")
         [] c = "city" -> Some("Miami")
         [] c = "property_type" -> Some("condo")
         [] c = "sale_type" -> Some("sale")
         [] c = "ownership" -> Some("unknown")
         [] c = "price" -> price
         [] c = "sqft" -> sqft
         [] c = "bedrooms" -> bedrooms
         [] c = "bathrooms" -> bathrooms
         [] OTHER -> Null]

\* the values on and next to the bounds of each rule, and the missing value
PriceValues == {Null, Some(-1), Some(0), Some(100000000), Some(100000001)}
SqftValues == {Null, Some(99), Some(100), Some(50000), Some(50001)}
BedroomValues == {Null, Some(-1), Some(0), Some(20), Some(21)}
BathroomValues == {Null, Some(-1), Some(0), Some(15), Some(16)}

\* records that leave the base record in one field, and records out of range in
\* several fields at once
ValidateRows ==
    {ValRow(p, Some(1200), Some(3), Some(2)) : p \in PriceValues}
      \cup {ValRow(Some(250000), q, Some(3), Some(2)) : q \in SqftValues}
      \cup {ValRow(Some(250000), Some(1200), b, Some(2)) : b \in BedroomValues}
      \cup {ValRow(Some(250000), Some(1200), Some(3), b) : b \in BathroomValues}
      \cup {ValRow(Some(250000), Some(99), Some(21), Some(16)),
            ValRow(Some(100000001), Some(50001), Some(21), Some(2)),
            ValRow(Some(0), Some(50001), Some(20), Some(-1))}

ValidateFull == {[cols |-> columns, rows |-> q] : q \in SeqsUpTo(ValidateRows, MaxBatch)}
ValidateInputs ==
    ValidateFull
      \cup {DropColumn(f, c) : f \in OneRow(ValidateFull), c \in {"price", "sqft"}}
      \cup {EmptyDataFrame}

InitValidate == InitCall("validate_data", ValidateInputs)

\* lines 169-216
ValidateCall ==
    /\ pc = At("call", "validate_data")
    /\ df' = validate_data(df)
    /\ pc' = At("return", "validate_data")
    /\ UNCHANGED callFrame

NextValidate == ValidateCall

SpecValidate == InitValidate /\ [][NextValidate]_vars

\* a record without the soft fields, which the hard rule never touches
Hard(r) == [c \in DOMAIN r \ {"sqft", "bedrooms", "bathrooms"} |-> r[c]]
PriceOf(r) == IF "price" \in DOMAIN r THEN r.price ELSE Null
PriceOK(r) == \E v \in PriceOf(r) : v >= 0 /\ v <= 100000000
KeptRows(rows) == FilterRows(rows, {i \in DOMAIN rows : PriceOK(rows[i])})

Soft(x, lo, hi) == IF \E v \in x : v < lo \/ v > hi THEN Null ELSE x
SoftExpected(r) ==
    [c \in DOMAIN r |->
       CASE c = "sqft" -> Soft(r[c], 100, 50000)
         [] c = "bedrooms" -> Soft(r[c], 0, 20)
         [] c = "bathrooms" -> Soft(r[c], 0, 15)
         [] OTHER -> r[c]]

\* C9: each record with a valid price is returned, with sqft outside [100, 50000],
\* bedrooms outside [0, 20] and bathrooms outside [0, 15] made missing and every
\* other value, those on the bounds among them, as it was.
C9_SoftRules ==
    (pc = At("return", "validate_data") /\ Has(hist.arg, "price")) =>
        df.rows = MapRows(KeptRows(hist.arg.rows), SoftExpected)

\* bedrooms 21 made missing in a kept record, bedrooms 20 left in another
C9_Witness ==
    /\ pc = At("return", "validate_data")
    /\ Len(df.rows) = 2
    /\ hist.arg.rows[1].bedrooms = Some(21)
    /\ IsNull(df.rows[1].bedrooms)
    /\ df.rows[1].sqft = hist.arg.rows[1].sqft
    /\ hist.arg.rows[2].bedrooms = Some(20)
    /\ df.rows[2].bedrooms = Some(20)

\* the records returned are, in order, records of the input (the soft fields,
\* which validation may blank, left aside)
SubSequenceOfInput ==
    \E keep \in SUBSET DOMAIN hist.arg.rows :
        MapRows(df.rows, Hard) = MapRows(FilterRows(hist.arg.rows, keep), Hard)

\* C24: what validate_data returns is the valid records together with a dropped
\* count: the records are an order-preserving sub-sequence of the input, and the
\* count is the number of input records less the number of records returned.
C24_ValidatorAccounting ==
    pc = At("return", "validate_data") =>
        /\ SubSequenceOfInput
        /\ "droppedCount" \in DOMAIN df
        /\ df.droppedCount = Len(hist.arg.rows) - Len(df.rows)

----------------------------------------------------------------------------
(* main() over a directory with several snapshots of a kind, unreadable     *)
(* files, macro data and a store that may be down                           *)

\* the directories of a kind: none, one file, or an earlier and a later file
DirsOf(contents, pairs) ==
    {{}} \cup {{File(Stamp2, c)} : c \in contents}
         \cup {{File(Stamp1, p[1]), File(Stamp2, p[2])} : p \in pairs}

MainZillowFrame == ZFrame(<<ZRow("102001", Some("Miami"), Some("FL"), NumCell(250000))>>)
MainZillowLater == ZFrame(<<ZRow("394913", Some("Orlando"), Some("FL"), NumCell(300000))>>)
\* a batch whose first record the store rejects (no region)
MainZillowPair ==
    ZFrame(<<ZRow("394913", Some("United States"), Null, NumCell(250000)),
             ZRow("102001", Some("Miami"), Some("FL"), NumCell(250000))>>)
MainZillowDirs ==
    DirsOf({Some(MainZillowFrame), Some(MainZillowPair),
            Some(DropColumn(MainZillowFrame, "RegionID")),
            Some(WithTextColumn(MainZillowFrame, "Metro")), Null},
           {<<Some(MainZillowFrame), Some(MainZillowLater)>>,
            <<Some(MainZillowFrame), Null>>})

MainRedfinFrame ==
    RFrame(<<RRow(Some("2020-01-31"), Some("Florida"), Some("FL"), Some(280000),
                  Some("Condo/Co-op"))>>)
MainRedfinDirs ==
    DirsOf({Some(MainRedfinFrame), Some(DropColumn(MainRedfinFrame, "period_end")), Null},
           {<<Null, Some(MainRedfinFrame)>>})

MainFredDirs ==
    DirsOf({Some(f) : f \in FredSnapshots} \cup {Null},
           {<<Some(FFrame(<<FRow("2020-01-31", NumCell(3))>>)),
              Some(FFrame(<<FRow("2020-01-31", NumCell(7))>>))>>})

InitFull ==
    InitMain([zillow : MainZillowDirs, redfin : MainRedfinDirs, fred : MainFredDirs],
             BOOLEAN)

NextMain ==
    \/ StartRun
    \/ SkipSource
    \/ CleanZillow
    \/ CleanRedfin
    \/ ReadFred
    \/ ReadRaises
    \/ Validate
    \/ LoadBegin
    \/ LoadRecord
    \/ LoadEnd
    \/ MacroBegin
    \/ MacroRecord
    \/ MacroEnd
    \/ Finish
    \/ Except

SpecMain == InitFull /\ [][NextMain]_vars

\* main stands at the call of an adapter on a snapshot it could read
AtAdapter ==
    /\ pc.at = "clean"
    /\ pc.src \in {"zillow", "redfin"}
    /\ raw[pc.src] # {}
    /\ NotNa(latest.frame)

\* the steps of main but the two calls of an adapter
StepButAdapter ==
    \/ StartRun
    \/ SkipSource
    \/ ReadFred
    \/ ReadRaises
    \/ Validate
    \/ LoadBegin
    \/ LoadRecord
    \/ LoadEnd
    \/ MacroBegin
    \/ MacroRecord
    \/ MacroEnd
    \/ Finish
    \/ Except

\* main is one thread of control: while it has a step to take, it takes it; an
\* adapter it calls returns (it has no loop but over the rows of its frame), so
\* main does not stand at the call for ever
SpecMainLive ==
    /\ SpecMain
    /\ WF_vars(StepButAdapter)
    /\ []<>(~AtAdapter)

----------------------------------------------------------------------------
(* Claims on main() over such a directory *)

\* the latest snapshot of a listings source is one its adapter cannot take: a
\* Zillow frame without RegionID or with a column that is neither an id column
\* nor a date, a Redfin frame without period_end
Abandoned(src) ==
    /\ src \in {"zillow", "redfin"}
    /\ raw[src] # {}
    /\ NotNa(max(raw[src]).frame)
    /\ LET f == Get(max(raw[src]).frame)
       IN IF src = "zillow"
          THEN \/ ~Has(f, "RegionID")
               \/ \E c \in Range(f.cols) :
                     c \notin Range(ZillowIdVars) /\ c \notin DOMAIN DateTable
          ELSE ~Has(f, "period_end")

\* C13: on such a snapshot the adapter, validate_data and load_listings each
\* return without raising; the adapter's result and what validate_data makes of
\* it are empty; load_listings returns 0; the store and the run's total are as
\* they were.
C13_SourceFailureIsEmpty ==
    [][ (pc.at \in {"clean", "validate", "load"} /\ Abandoned(pc.src)) =>
          /\ pc'.at # "except"
          /\ IsEmpty(df')
          /\ listings' = listings
          /\ macro_indicators' = macro_indicators
          /\ total_loaded' = total_loaded
          /\ pc.at = "load" => (hist'.returned[pc.src] = Some(0) /\ pc'.at = "clean")
      ]_vars

\* main went on to Redfin after a Zillow snapshot without RegionID, which was
\* read and of which nothing was loaded
C13_Witness ==
    /\ pc = At("clean", "redfin")
    /\ Abandoned("zillow")
    /\ ~Has(Get(max(raw.zillow).frame), "RegionID")
    /\ hist.read.zillow # {}
    /\ hist.returned.zillow = Some(0)
    /\ IsEmpty(df)
    /\ listings = <<>>

\* C14: when a run of main has ended, every source kind that has a snapshot had
\* its snapshot read in that run, whatever happened to the kinds before it.
C14_SourceIndependence ==
    (pc = Idle /\ run > 0) =>
        \A k \in Kinds : raw[k] # {} => hist.read[k] # {}

InLoop == pc.at \in {"loop", "macro_loop"}
Attempted == hist.load.failed \cup hist.load.committed

\* C15: a pass of the loop of load_listings or load_macro_indicators stays in the
\* loop and moves to the next record, whatever the record did; the records
\* attempted so far are the first idx, each once; a failed record leaves both
\* tables as they were; no pass removes a stored row or changes its key; and the
\* loop is left, without raising, only after the last record.
C15_PerRecordContinuation ==
    [][ /\ (InLoop /\ idx <= Len(df.rows)) =>
             /\ pc' = pc
             /\ idx' = idx + 1
             /\ idx \notin Attempted
             /\ Attempted' = 1..idx
             /\ idx \in hist'.load.failed =>
                   /\ listings' = listings
                   /\ macro_indicators' = macro_indicators
                   /\ records_failed' = records_failed + 1
             /\ \A i \in DOMAIN listings :
                   /\ i \in DOMAIN listings'
                   /\ listings'[i].listing_id = listings[i].listing_id
             /\ \A i \in DOMAIN macro_indicators :
                   /\ i \in DOMAIN macro_indicators'
                   /\ macro_indicators'[i].region = macro_indicators[i].region
                   /\ macro_indicators'[i].date = macro_indicators[i].date
        /\ (InLoop /\ pc' # pc) =>
             /\ idx > Len(df.rows)
             /\ Attempted = 1..Len(df.rows)
             /\ pc'.at # "except"
      ]_vars

\* a macro batch of two whose first record failed and whose second is stored
C15_Witness ==
    /\ pc.at = "macro_loop"
    /\ idx > Len(df.rows)
    /\ Len(df.rows) = 2
    /\ hist.load.failed = {1}
    /\ hist.load.committed = {2}
    /\ hist.load.before = <<>>
    /\ Len(macro_indicators) = 1
    /\ macro_indicators[1].date = df.rows[2].date

\* C16: a run in which a loader found the store unreachable does not end as
\* completed.
C16_StoreDownIsFatal ==
    (pc = Idle /\ run > 0 /\ ~store_up /\ hist.faults > 0) =>
        hist.outcomes[Len(hist.outcomes)] = "failed"

\* C17: when the loop of a loader is over, the loaded count and the failed count
\* add up to the number of records of the batch.
C17_CountsAddUp ==
    (InLoop /\ idx > Len(df.rows)) =>
        records_loaded + records_failed = Len(df.rows)

MacroKeysUnique(table) ==
    \A i, j \in DOMAIN table :
        (table[i].region = table[j].region /\ table[i].date = table[j].date) => i = j

\* C18: macro_indicators never holds two rows of one region and date.  A pass
\* of load_macro_indicators that commits a record whose (region, date) is stored
\* sets mortgage_rate and updated_at of that row and adds no row; one that
\* commits a record with a new (region, date) appends one row; every other step
\* leaves the table as it is.  Once a run has loaded the snapshot, loading it
\* again with no store fault leaves the number of rows as it is.
C18_MacroUpsert ==
    [][ /\ MacroKeysUnique(macro_indicators')
        /\ IF pc.at = "macro_loop" /\ idx <= Len(df.rows) /\ idx \in hist'.load.committed
           THEN LET row == df.rows[idx]
                    same(t) == t.region = Some("florida") /\ t.date = row.date
                IN IF \E i \in DOMAIN macro_indicators : same(macro_indicators[i])
                   THEN /\ Len(macro_indicators') = Len(macro_indicators)
                        /\ \A i \in DOMAIN macro_indicators :
                              IF same(macro_indicators[i])
                              THEN /\ same(macro_indicators'[i])
                                   /\ macro_indicators'[i].mortgage_rate = Some(row.value.n)
                                   /\ macro_indicators'[i].updated_at = Some(now')
                              ELSE macro_indicators'[i] = macro_indicators[i]
                   ELSE /\ Len(macro_indicators') = Len(macro_indicators) + 1
                        /\ SubSeq(macro_indicators', 1, Len(macro_indicators)) = macro_indicators
                        /\ same(macro_indicators'[Len(macro_indicators')])
                        /\ macro_indicators'[Len(macro_indicators')].mortgage_rate
                              = Some(row.value.n)
           ELSE macro_indicators' = macro_indicators
        /\ (run >= 1 /\ store_up /\ hist'.faults = 0) =>
              Len(macro_indicators') = Len(macro_indicators)
      ]_vars

\* a second run loaded a snapshot of two rates of one date again: one row, with
\* the later rate and a timestamp
C18_Witness ==
    /\ run = 1
    /\ hist.faults = 0
    /\ pc.at = "macro_loop"
    /\ idx > Len(df.rows)
    /\ hist.load.committed = {1, 2}
    /\ df.rows[1].date = df.rows[2].date
    /\ df.rows[1].value # df.rows[2].value
    /\ Len(hist.load.before) = 1
    /\ Len(macro_indicators) = 1
    /\ macro_indicators[1].mortgage_rate = Some(df.rows[2].value.n)
    /\ NotNa(macro_indicators[1].updated_at)

\* the day a stamp names, as the number YYYYMMDD
RECURSIVE StampDay(_)
StampDay(stamp) ==
    IF stamp = <<>> THEN 0
    ELSE 10 * StampDay(SubSeq(stamp, 1, Len(stamp) - 1)) + stamp[Len(stamp)]

\* the names of the snapshots of a kind that no snapshot of the kind follows, by
\* name and by day
LatestNames(k) ==
    {f.name : f \in {g \in raw[k] :
                       \A h \in raw[k] : ~LexLess(g.name, h.name)
                                          /\ StampDay(h.name) <= StampDay(g.name)}}

\* the source kinds the run in progress has dealt with, in the order of main
Order(k) == CASE k = "zillow" -> 1 [] k = "redfin" -> 2 [] k = "fred" -> 3 [] OTHER -> 0
Handled(k) ==
    \/ pc.at = "summary"
    \/ pc.src \in Kinds /\ Order(k) < Order(pc.src)
    \/ pc.src = k /\ pc.at # "clean"

\* C19: of each source kind a run has dealt with, main has read one file if the
\* kind has snapshots, the one whose name is the greatest and whose day is the
\* latest, and none otherwise; it has read no file of the kinds it has not come
\* to; and a kind without snapshot never takes main to its except clause.
C19_LatestSnapshot ==
    pc # Idle =>
        /\ \A k \in Kinds :
              IF Handled(k)
              THEN /\ hist.read[k] = LatestNames(k)
                   /\ Cardinality(hist.read[k]) = (IF raw[k] = {} THEN 0 ELSE 1)
              ELSE hist.read[k] = {}
        /\ pc.at = "except" => raw[pc.src] # {}

\* a run came to its summary having read the later of two Zillow snapshots and
\* of two macro snapshots, whose rate is stored, and having skipped Redfin
C19_Witness ==
    /\ pc.at = "summary"
    /\ Cardinality(raw.zillow) = 2
    /\ Cardinality(raw.fred) = 2
    /\ raw.redfin = {}
    /\ hist.read = [zillow |-> {Stamp2}, redfin |-> {}, fred |-> {Stamp2}]
    /\ Len(macro_indicators) = 1
    /\ macro_indicators[1].mortgage_rate = Some(7)
    /\ \E i \in DOMAIN listings : listings[i].city = Some("Orlando")

\* the sum of the counts the loaders returned in the run
SumReturned ==
    LET n(k) == IF IsNull(hist.returned[k]) THEN 0 ELSE Get(hist.returned[k])
    IN n("zillow") + n("redfin") + n("fred")

\* C20: a run that completes prints a summary whose total is the sum of the counts
\* the loaders returned in the run, and which gives the count of each source kind
\* that was loaded.
C20_RunSummary ==
    (pc = Idle /\ run > 0 /\ hist.outcomes[Len(hist.outcomes)] = "completed") =>
        /\ NotNa(hist.summary)
        /\ Get(hist.summary).total_records_loaded = SumReturned
        /\ \A k \in Kinds :
              NotNa(hist.returned[k]) => k \in DOMAIN Get(hist.summary)

\* C29: every run of main that has begun comes to its end, whether it completes
\* or an exception leaves the processing of a source, with loader.close() called
\* once on its DataLoader: not before the end, and once at it; and from the
\* close on neither table of the store is written.
C29_LoaderClosedOnce ==
    /\ [][ /\ pc' # Idle => closed' = 0
           /\ (pc # Idle /\ pc' = Idle) => closed' = 1
           /\ closed >= 1 => (listings' = listings /\ macro_indicators' = macro_indicators)
         ]_vars
    /\ [](pc # Idle => <>(pc = Idle /\ closed = 1))

\* a run that had stored a Zillow record ended on an unreadable Redfin file, its
\* loader closed once
C29_Witness ==
    /\ pc = Idle
    /\ run = 1
    /\ hist.outcomes = <<"failed">>
    /\ hist.read.zillow # {}
    /\ hist.read.redfin # {}
    /\ Len(listings) = 1
    /\ closed = 1

----------------------------------------------------------------------------
(* The loaders called on a batch: main entered where it calls load_listings *)
(* (lines 365, 377) or load_macro_indicators (line 387)                     *)

MaxLoad == 4      \* records of a batch given to a loader

LRow(id, city, region, price) ==
    [c \in Range(columns) |->
       CASE c = "listing_id" -> Some(id)
         [] c = "date" -> Some("2020-01-31 00:00:00")
         [] c = "region" -> region
         [] c = "city" -> Some(city)
         [] c = "property_type" -> Some("condo")
         [] c = "sale_type" -> Some("sale")
         [] c = "ownership" -> Some("unknown")
         [] c = "price" -> Some(price)
         [] OTHER -> Null]

\* two records of one listing_id with their own city and price, a record of
\* another listing_id, and a record the store rejects (no region)
LoadRows ==
    {LRow("7d4a175ba5c95745", "Miami", Some("FL"), 250000),
     LRow("7d4a175ba5c95745", "Tampa", Some("FL"), 300000),
     LRow("768752e0b70b4852", "Orlando", Some("FL"), 250000),
     LRow("768752e0b70b4852", "United States", Null, 250000)}
LoadBatches == {[cols |-> columns, rows |-> q] : q \in SeqsUpTo(LoadRows, MaxLoad)}
MacroBatches == {FFrame(q) : q \in SeqsUpTo(FredRows, MaxLoad)}

InitLoader(place, batches) ==
    /\ df \in batches
    /\ pc = place
    /\ raw = NoRaw
    /\ store_up \in BOOLEAN
    /\ idx = 0
    /\ records_loaded = 0
    /\ records_failed = 0
    /\ total_loaded = 0
    /\ listings = <<>>
    /\ macro_indicators = <<>>
    /\ now = 0
    /\ run = 0
    /\ log = <<>>
    /\ closed = 0
    /\ hist = NoHistory

InitLoad ==
    \/ InitLoader(At("load", "zillow"), LoadBatches)
    \/ InitLoader(At("macro_load", "fred"), MacroBatches)

NextLoad ==
    \/ LoadBegin
    \/ LoadRecord
    \/ LoadEnd
    \/ MacroBegin
    \/ MacroRecord
    \/ MacroEnd

SpecLoad == InitLoad /\ [][NextLoad]_vars

----------------------------------------------------------------------------
(* Claims on the loaders *)

\* the table load_listings leaves when it loads rows, in their order, into table
\* with no store fault
RECURSIVE LoadAll(_, _)
LoadAll(table, rows) ==
    IF rows = <<>> THEN table
    ELSE LET n == Len(rows)
             front == LoadAll(table, SubSeq(rows, 1, n - 1))
         IN IF LoadOutcome(rows[n], "none") = "committed"
            THEN Upsert(front, statement_params(rows[n]), 0)
            ELSE front

Permuted(rows, f) == [i \in DOMAIN rows |-> rows[f[i]]]
Contents(table) == Range(Canonical(table))

\* C23: when load_listings has loaded a batch with no store fault, the rows the
\* table holds (their twelve column values) are those that loading the records of
\* the batch in any other order would have left.
C23_OrderIndependent ==
    (pc.at = "loop" /\ idx > Len(df.rows) /\ hist.faults = 0) =>
        \A f \in Permutations(DOMAIN df.rows) :
            Contents(LoadAll(hist.load.before, Permuted(df.rows, f))) = Contents(listings)

\* the members of a set of positions, in increasing order
RECURSIVE Ascending(_)
Ascending(S) ==
    IF S = {} THEN <<>>
    ELSE LET m == CHOOSE x \in S : \A y \in S : x <= y
         IN <<m>> \o Ascending(S \ {m})

\* one full warning for each of the first three records that failed, in the
\* order of the batch
DetailLines ==
    LET failing == Ascending(hist.load.failed)
        first == SubSeq(failing, 1, IF Len(failing) < 3 THEN Len(failing) ELSE 3)
    IN MapRows(first, LAMBDA i : [what |-> "skipping", n |-> i])

CallReturned == pc.at \notin {"load", "macro_load", "loop", "macro_loop"}

\* C25: in a call of load_listings or load_macro_indicators in which F records
\* failed, the warnings written on failed records are, while the loop runs, one
\* full warning for each of the first min(F, 3) failing records in batch order;
\* when the call has returned they are followed by one line "F - 3 more" if
\* F > 3, and by nothing otherwise.
C25_BoundedFailureLog ==
    LET F == Cardinality(hist.load.failed)
    IN /\ InLoop => log = DetailLines
       /\ CallReturned =>
             log = DetailLines \o (IF F > 3
                                   THEN <<[what |-> "more_failed", n |-> F - 3]>>
                                   ELSE <<>>)

\* a call returned after the four records of its batch failed: a full warning
\* for each of the first three, and the line "1 more"
C25_Witness ==
    /\ CallReturned
    /\ Cardinality(hist.load.failed) = 4
    /\ log = <<[what |-> "skipping", n |-> 1], [what |-> "skipping", n |-> 2],
               [what |-> "skipping", n |-> 3], [what |-> "more_failed", n |-> 1]>>

\* C26: the count a loader returns is the number of records whose transaction
\* committed in the call; a record whose statement ran and whose commit failed
\* is counted as failed only.
C26_LoadedIsCommitted ==
    \A k \in Kinds :
        NotNa(hist.returned[k]) =>
            /\ Get(hist.returned[k]) = Cardinality(hist.load.committed)
            /\ records_failed = Cardinality(hist.load.failed)
            /\ records_loaded + records_failed <= Len(df.rows)

=============================================================================
